---------------------------- MODULE Spec2Model ----------------------------
(***************************************************************************)
(* Model of core.py: the Hardy golf model.                                 *)
(*   simulate_hole_hardy       one stochastic trial, capped by max_shots   *)
(*   hardy_distribution_markov forward DP, one absorbing class (>= par)    *)
(*   hardy_finish_pmf_ij       forward DP, two absorbing states            *)
(*                                                                         *)
(* Arithmetic.  The code computes in binary floating point.  The model     *)
(* computes the same expressions over exact rationals: a probability is a  *)
(* numerator over Den, a probability mass is a numerator over One, and     *)
(* One is Den to the power of the longest horizon, so that every product   *)
(* mass * probability is an exact division.  Rounding error of the float   *)
(* arithmetic is therefore outside the model.                              *)
(***************************************************************************)
EXTENDS Integers, Sequences, FiniteSets, TLC

\* Probabilities are k/Den.
Den == 4
\* Largest horizon n_max given to a solver call (a second call uses n_max + 1).
MaxN == 4
\* Largest par given to a call.
MaxPar == 3
\* Largest max_shots given to simulate_hole_hardy.
MaxShots == 4

VARIABLES
    sim,   \* the calls of simulate_hole_hardy, a sequence of call records
    mk,    \* the calls of hardy_distribution_markov
    fin    \* the calls of hardy_finish_pmf_ij

vars == <<sim, mk, fin>>

----------------------------------------------------------------------------
\* Exact arithmetic

RECURSIVE Pow(_, _)
Pow(b, e) == IF e <= 0 THEN 1 ELSE b * Pow(b, e - 1)

\* The mass 1.0
One == Pow(Den, MaxN + 1)

\* prob_here * probs_x, a mass times a probability
Mul(mass, pr) == (mass * pr) \div Den

RECURSIVE SumTo(_, _)
\* sum of f[0..n]
SumTo(f, n) == IF n < 0 THEN 0 ELSE f[n] + SumTo(f, n - 1)

\* total of an array indexed 0..len-1
Total(f) == SumTo(f, Cardinality(DOMAIN f) - 1)

\* np.zeros(n), n >= 0
Zeros(n) == [s \in 0..(n - 1) |-> 0]

\* the inputs: probabilities (valid or not), pars, horizons
ProbInputs == (0 - 1)..Den
ParInputs == (0 - 1)..MaxPar
HorizonInputs == 0..MaxN

\* `p < 0 or q < 0 or p + q >= 1`
BadProbs(p, q) == p < 0 \/ q < 0 \/ p + q >= Den

NoRaise == [kind |-> "none", line |-> 0]
Raise(kind, line) == [kind |-> kind, line |-> line]

----------------------------------------------------------------------------
\* hardy_distribution_markov(par_m, p, q, n_max)

MarkovCall(par_m, p, q, n_max) ==
    [pc |-> "validate", par_m |-> par_m, p |-> p, q |-> q, n_max |-> n_max,
     built |-> {}, p_state |-> <<>>, pmf |-> <<>>, shot |-> 0,
     raised |-> NoRaise]

\* lines 65-70: the probability check, then probs_good, probs_bad, probs_ord
MarkovValidated(c) ==
    IF BadProbs(c.p, c.q)
    THEN [c EXCEPT !.pc = "raised", !.raised = Raise("ValueError", 66)]
    ELSE [c EXCEPT !.pc = "alloc"]

\* lines 72-75: p_state = np.zeros(par_m); p_state[0] = 1.0; pmf = np.zeros(n_max)
MarkovAllocated(c) ==
    IF c.par_m < 0
    THEN \* np.zeros of a negative length: numpy's own ValueError
         [c EXCEPT !.pc = "raised", !.raised = Raise("ValueError", 72)]
    ELSE IF c.par_m = 0
    THEN \* p_state[0] on an array of length 0
         [c EXCEPT !.pc = "raised", !.raised = Raise("IndexError", 73),
                   !.built = {"p_state"}, !.p_state = Zeros(0)]
    ELSE [c EXCEPT !.pc = "loop", !.shot = 1,
                   !.built = {"p_state", "pmf"},
                   !.p_state = [Zeros(c.par_m) EXCEPT ![0] = One],
                   !.pmf = Zeros(c.n_max)]

\* MarkovMove with the boundary one state early
MarkovMoveEarly(acc, new_val, m, par_m) ==
    IF new_val >= par_m - 1
    THEN [acc EXCEPT !.emit = @ + m]
    ELSE [acc EXCEPT !.next[new_val] = @ + m]

\* lines 85-89 or 91-95: the mass `m` of one outcome moves to new_val
MarkovMove(acc, new_val, m, par_m) ==
    IF new_val >= par_m
    THEN [acc EXCEPT !.emit = @ + m]
    ELSE [acc EXCEPT !.next[new_val] = @ + m]

\* MarkovBody without line 97, the bad shot's self-loop
MarkovBodyNoSelfLoop(acc, s, c) ==
    LET prob_here == c.p_state[s]
        a1 == MarkovMove(acc, s + 2, Mul(prob_here, c.p), c.par_m)
    IN  IF prob_here = 0 THEN acc
        ELSE MarkovMove(a1, s + 1, Mul(prob_here, Den - c.p - c.q), c.par_m)

\* lines 81-97: the body of the inner loop for state s
MarkovBody(acc, s, c) ==
    LET prob_here == c.p_state[s]
        probs_good == c.p
        probs_bad == c.q
        probs_ord == Den - c.p - c.q
        a1 == MarkovMove(acc, s + 2, Mul(prob_here, probs_good), c.par_m)
        a2 == MarkovMove(a1, s + 1, Mul(prob_here, probs_ord), c.par_m)
    IN  IF prob_here = 0 THEN acc
        ELSE [a2 EXCEPT !.next[s] = @ + Mul(prob_here, probs_bad)]

RECURSIVE MarkovInner(_, _, _)
\* lines 80-97: `for s in range(par_m)`, from state s on
MarkovInner(acc, s, c) ==
    IF s >= c.par_m THEN acc
    ELSE MarkovInner(MarkovBody(acc, s, c), s + 1, c)

\* MarkovShotDone without line 99, `p_state = p_state_next`
MarkovShotDoneKeepsState(c) ==
    LET acc == MarkovInner([next |-> Zeros(c.par_m), emit |-> 0], 0, c)
    IN  [c EXCEPT !.pmf[c.shot - 1] = @ + acc.emit,
                  !.shot = @ + 1]

\* lines 78-99: one pass of the outer loop
MarkovShotDone(c) ==
    LET acc == MarkovInner([next |-> Zeros(c.par_m), emit |-> 0], 0, c)
    IN  [c EXCEPT !.pmf[c.shot - 1] = @ + acc.emit,
                  !.p_state = acc.next,
                  !.shot = @ + 1]

MarkovValidate(k) ==
    /\ mk[k].pc = "validate"
    /\ mk' = [mk EXCEPT ![k] = MarkovValidated(mk[k])]
    /\ UNCHANGED <<sim, fin>>

MarkovAlloc(k) ==
    /\ mk[k].pc = "alloc"
    /\ mk' = [mk EXCEPT ![k] = MarkovAllocated(mk[k])]
    /\ UNCHANGED <<sim, fin>>

\* line 77: `for shot in range(1, n_max + 1)`
MarkovShot(k) ==
    /\ mk[k].pc = "loop"
    /\ mk[k].shot <= mk[k].n_max
    /\ mk' = [mk EXCEPT ![k] = MarkovShotDone(mk[k])]
    /\ UNCHANGED <<sim, fin>>

\* lines 101-102
MarkovReturn(k) ==
    /\ mk[k].pc = "loop"
    /\ mk[k].shot > mk[k].n_max
    /\ mk' = [mk EXCEPT ![k].pc = "returned"]
    /\ UNCHANGED <<sim, fin>>

MarkovNext ==
    \/ \E k \in DOMAIN mk : MarkovValidate(k)
    \/ \E k \in DOMAIN mk : MarkovAlloc(k)
    \/ \E k \in DOMAIN mk : MarkovShot(k)
    \/ \E k \in DOMAIN mk : MarkovReturn(k)

\* Two calls on the same (par_m, p, q), with horizons n_max and n_max + 1.
MarkovInit ==
    /\ sim = <<>>
    /\ fin = <<>>
    /\ \E par_m \in ParInputs, p \in ProbInputs, q \in ProbInputs,
          n_max \in HorizonInputs :
          mk = <<MarkovCall(par_m, p, q, n_max),
                 MarkovCall(par_m, p, q, n_max + 1)>>

SpecMarkov == MarkovInit /\ [][MarkovNext]_vars

----------------------------------------------------------------------------
\* hardy_finish_pmf_ij(par_m, i, j, p, q, n_max)

FinishCall(par_m, i, j, p, q, n_max) ==
    [pc |-> "validate", par_m |-> par_m, i |-> i, j |-> j, p |-> p, q |-> q,
     n_max |-> n_max, built |-> {}, p_state |-> <<>>, pmf |-> <<>>,
     shot |-> 0, raised |-> NoRaise]

\* FinishValidated without lines 157-158, the check of j
FinishValidatedNoJ(c) ==
    IF BadProbs(c.p, c.q)
    THEN [c EXCEPT !.pc = "raised", !.raised = Raise("ValueError", 152)]
    ELSE IF c.par_m < 1
    THEN [c EXCEPT !.pc = "raised", !.raised = Raise("ValueError", 154)]
    ELSE IF ~(0 <= c.i /\ c.i <= c.par_m + 1)
    THEN [c EXCEPT !.pc = "raised", !.raised = Raise("ValueError", 156)]
    ELSE [c EXCEPT !.pc = "setup"]

\* lines 151-158: the four checks, in the order of the code
FinishValidated(c) ==
    IF BadProbs(c.p, c.q)
    THEN [c EXCEPT !.pc = "raised", !.raised = Raise("ValueError", 152)]
    ELSE IF c.par_m < 1
    THEN [c EXCEPT !.pc = "raised", !.raised = Raise("ValueError", 154)]
    ELSE IF ~(0 <= c.i /\ c.i <= c.par_m + 1)
    THEN [c EXCEPT !.pc = "raised", !.raised = Raise("ValueError", 156)]
    ELSE IF c.j \notin {c.par_m, c.par_m + 1}
    THEN [c EXCEPT !.pc = "raised", !.raised = Raise("ValueError", 158)]
    ELSE [c EXCEPT !.pc = "setup"]

\* lines 167-169
ordinary_abs(c) == c.par_m
exceptional_abs(c) == c.par_m + 1
other_abs(c) ==
    IF c.j = exceptional_abs(c) THEN ordinary_abs(c) ELSE exceptional_abs(c)

\* FinishSetUp without lines 172-174, the case i == j
FinishSetUpNoSame(c) ==
    LET pmf == Zeros(c.n_max + 1)
    IN  IF c.i = other_abs(c)
        THEN [c EXCEPT !.pc = "returned", !.built = {"pmf"}, !.pmf = pmf]
        ELSE IF 0 <= c.i /\ c.i <= c.par_m - 1
        THEN [c EXCEPT !.pc = "loop", !.shot = 1,
                       !.built = {"pmf", "p_state"}, !.pmf = pmf,
                       !.p_state = [Zeros(c.par_m) EXCEPT ![c.i] = One]]
        ELSE [c EXCEPT !.pc = "returned", !.built = {"pmf", "p_state"},
                       !.pmf = pmf, !.p_state = Zeros(c.par_m)]

\* lines 160-186: n_array and pmf, the two cases decided at n = 0, p_state
FinishSetUp(c) ==
    LET pmf == Zeros(c.n_max + 1)
    IN  IF c.i = c.j
        THEN [c EXCEPT !.pc = "returned", !.built = {"pmf"},
                       !.pmf = [pmf EXCEPT ![0] = One]]
        ELSE IF c.i = other_abs(c)
        THEN [c EXCEPT !.pc = "returned", !.built = {"pmf"}, !.pmf = pmf]
        ELSE IF 0 <= c.i /\ c.i <= c.par_m - 1
        THEN [c EXCEPT !.pc = "loop", !.shot = 1,
                       !.built = {"pmf", "p_state"}, !.pmf = pmf,
                       !.p_state = [Zeros(c.par_m) EXCEPT ![c.i] = One]]
        ELSE [c EXCEPT !.pc = "returned", !.built = {"pmf", "p_state"},
                       !.pmf = pmf, !.p_state = Zeros(c.par_m)]

\* FinishMove with the two boundaries merged when the target is par:
\* `new_val >= ordinary_abs` in place of `new_val == ordinary_abs`
FinishMoveMerged(acc, new_val, m, c) ==
    IF new_val >= exceptional_abs(c) /\ c.j = exceptional_abs(c)
    THEN [acc EXCEPT !.emit = @ + m]
    ELSE IF new_val >= ordinary_abs(c)
    THEN IF c.j = ordinary_abs(c)
         THEN [acc EXCEPT !.emit = @ + m]
         ELSE acc
    ELSE [acc EXCEPT !.next[new_val] = @ + m]

\* lines 197-210 or 213-221: the mass `m` of one outcome moves to new_val
FinishMove(acc, new_val, m, c) ==
    IF new_val >= exceptional_abs(c)
    THEN IF c.j = exceptional_abs(c)
         THEN [acc EXCEPT !.emit = @ + m]
         ELSE acc
    ELSE IF new_val = ordinary_abs(c)
    THEN IF c.j = ordinary_abs(c)
         THEN [acc EXCEPT !.emit = @ + m]
         ELSE acc
    ELSE [acc EXCEPT !.next[new_val] = @ + m]

\* FinishBody with line 225 as `p_next[s] += prob_here`
FinishBodyKeepsAll(acc, s, c) ==
    LET prob_here == c.p_state[s]
        a1 == FinishMove(acc, s + 2, Mul(prob_here, c.p), c)
        a2 == FinishMove(a1, s + 1, Mul(prob_here, Den - c.p - c.q), c)
    IN  IF prob_here = 0 THEN acc
        ELSE [a2 EXCEPT !.next[s] = @ + prob_here]

\* lines 192-225: the body of the inner loop for state s
FinishBody(acc, s, c) ==
    LET prob_here == c.p_state[s]
        p_good == c.p
        p_bad == c.q
        p_ord == Den - c.p - c.q
        a1 == FinishMove(acc, s + 2, Mul(prob_here, p_good), c)
        a2 == FinishMove(a1, s + 1, Mul(prob_here, p_ord), c)
    IN  IF prob_here = 0 THEN acc
        ELSE [a2 EXCEPT !.next[s] = @ + Mul(prob_here, p_bad)]

RECURSIVE FinishInner(_, _, _)
\* lines 191-225: `for s in range(par_m)`, from state s on
FinishInner(acc, s, c) ==
    IF s >= c.par_m THEN acc
    ELSE FinishInner(FinishBody(acc, s, c), s + 1, c)

\* lines 189-227: one pass of the outer loop
FinishShotDone(c) ==
    LET acc == FinishInner([next |-> Zeros(c.par_m), emit |-> 0], 0, c)
    IN  [c EXCEPT !.pmf[c.shot] = @ + acc.emit,
                  !.p_state = acc.next,
                  !.shot = @ + 1]

FinishValidate(k) ==
    /\ fin[k].pc = "validate"
    /\ fin' = [fin EXCEPT ![k] = FinishValidated(fin[k])]
    /\ UNCHANGED <<sim, mk>>

FinishSetup(k) ==
    /\ fin[k].pc = "setup"
    /\ fin' = [fin EXCEPT ![k] = FinishSetUp(fin[k])]
    /\ UNCHANGED <<sim, mk>>

\* line 188: `for shot in range(1, n_max + 1)`
FinishShot(k) ==
    /\ fin[k].pc = "loop"
    /\ fin[k].shot <= fin[k].n_max
    /\ fin' = [fin EXCEPT ![k] = FinishShotDone(fin[k])]
    /\ UNCHANGED <<sim, mk>>

\* line 229
FinishReturn(k) ==
    /\ fin[k].pc = "loop"
    /\ fin[k].shot > fin[k].n_max
    /\ fin' = [fin EXCEPT ![k].pc = "returned"]
    /\ UNCHANGED <<sim, mk>>

FinishNext ==
    \/ \E k \in DOMAIN fin : FinishValidate(k)
    \/ \E k \in DOMAIN fin : FinishSetup(k)
    \/ \E k \in DOMAIN fin : FinishShot(k)
    \/ \E k \in DOMAIN fin : FinishReturn(k)

\* One call, on any inputs.
FinishInit ==
    /\ sim = <<>>
    /\ mk = <<>>
    /\ \E par_m \in ParInputs, p \in ProbInputs, q \in ProbInputs,
          n_max \in HorizonInputs,
          i \in (0 - 1)..(MaxPar + 2), j \in (0 - 1)..(MaxPar + 2) :
          fin = <<FinishCall(par_m, i, j, p, q, n_max)>>

SpecFinish == FinishInit /\ [][FinishNext]_vars

\* The single-boundary call and the two dual-boundary calls from state 0,
\* one per target, on the same (par_m, p, q, n_max).
EquivInit ==
    /\ sim = <<>>
    /\ \E par_m \in ParInputs, p \in ProbInputs, q \in ProbInputs,
          n_max \in HorizonInputs :
          /\ mk = <<MarkovCall(par_m, p, q, n_max)>>
          /\ fin = <<FinishCall(par_m, 0, par_m, p, q, n_max),
                     FinishCall(par_m, 0, par_m + 1, p, q, n_max)>>

EquivNext ==
    \/ \E k \in DOMAIN mk : MarkovValidate(k)
    \/ \E k \in DOMAIN mk : MarkovAlloc(k)
    \/ \E k \in DOMAIN mk : MarkovShot(k)
    \/ \E k \in DOMAIN mk : MarkovReturn(k)
    \/ \E k \in DOMAIN fin : FinishValidate(k)
    \/ \E k \in DOMAIN fin : FinishSetup(k)
    \/ \E k \in DOMAIN fin : FinishShot(k)
    \/ \E k \in DOMAIN fin : FinishReturn(k)

SpecEquiv == EquivInit /\ [][EquivNext]_vars

----------------------------------------------------------------------------
\* simulate_hole_hardy(par_m, p, q, rng, max_shots)

\* `drawn` is what the call has taken from rng so far: the values of the
\* outcomes drawn, oldest first.
SimCall(par_m, p, q, max_shots) ==
    [pc |-> "entry", par_m |-> par_m, p |-> p, q |-> q,
     max_shots |-> max_shots, score |-> 0, total_value |-> 0,
     drawn |-> <<>>, raised |-> NoRaise]

\* lines 14-15, 18: rng.choice(3, p=probs) picks an index of positive
\* probability in probs = [p, q, 1 - p - q]; values = [2, 0, 1]
Outcomes(c) ==
    {v \in {2, 0, 1} :
        \/ v = 2 /\ c.p > 0
        \/ v = 0 /\ c.q > 0
        \/ v = 1 /\ Den - c.p - c.q > 0}

\* lines 5-15
SimEntered(c) ==
    IF BadProbs(c.p, c.q)
    THEN [c EXCEPT !.pc = "raised", !.raised = Raise("ValueError", 9)]
    ELSE [c EXCEPT !.pc = "loop", !.score = 0, !.total_value = 0]

\* OverCap one shot early, and one shot late
OverCapEarly(score, max_shots) == score >= max_shots
OverCapLate(score, max_shots) == score > max_shots + 1

\* line 22: `if score > max_shots`
OverCap(score, max_shots) == score > max_shots

\* lines 18-23: one pass of the loop, drawing the outcome of value v
SimShotDone(c, v) ==
    LET d == [c EXCEPT !.drawn = Append(@, v),
                       !.total_value = @ + v,
                       !.score = @ + 1]
    IN  IF OverCap(d.score, d.max_shots)
        THEN [d EXCEPT !.pc = "raised", !.raised = Raise("RuntimeError", 23)]
        ELSE d

SimEntry(k) ==
    /\ sim[k].pc = "entry"
    /\ sim' = [sim EXCEPT ![k] = SimEntered(sim[k])]
    /\ UNCHANGED <<mk, fin>>

\* line 17: `while total_value < par_m`
SimShot(k) ==
    /\ sim[k].pc = "loop"
    /\ sim[k].total_value < sim[k].par_m
    /\ \E v \in Outcomes(sim[k]) :
          sim' = [sim EXCEPT ![k] = SimShotDone(sim[k], v)]
    /\ UNCHANGED <<mk, fin>>

\* line 25: `return score`
SimReturn(k) ==
    /\ sim[k].pc = "loop"
    /\ sim[k].total_value >= sim[k].par_m
    /\ sim' = [sim EXCEPT ![k].pc = "returned"]
    /\ UNCHANGED <<mk, fin>>

SimNext ==
    \/ \E k \in DOMAIN sim : SimEntry(k)
    \/ \E k \in DOMAIN sim : SimShot(k)
    \/ \E k \in DOMAIN sim : SimReturn(k)

SimInit ==
    /\ mk = <<>>
    /\ fin = <<>>
    /\ \E par_m \in ParInputs, p \in ProbInputs, q \in ProbInputs,
          max_shots \in 0..MaxShots :
          sim = <<SimCall(par_m, p, q, max_shots)>>

SpecSim == SimInit /\ [][SimNext]_vars

\* The interpreter runs the call to its end: a step that can be taken is taken.
FairSpecSim == SpecSim /\ WF_vars(SimNext)

----------------------------------------------------------------------------
\* Properties of hardy_distribution_markov (SpecMarkov)

ValidProbs(c) == ~BadProbs(c.p, c.q)
Running(c) == c.pc \in {"loop", "returned"}
NonNegative(f) == \A s \in DOMAIN f : f[s] >= 0

\* C2 (as claimed): whenever p < 0, q < 0, p + q >= 1 or par < 1, the call
\* fails with a ValueError and has built neither p_state nor pmf.
C2_RejectsBeforeConstruction ==
    \A k \in DOMAIN mk :
        LET c == mk[k]
        IN  (BadProbs(c.p, c.q) \/ c.par_m < 1) /\ c.pc \notin {"validate", "alloc"}
            => /\ c.pc = "raised"
               /\ c.raised.kind = "ValueError"
               /\ c.built = {}

\* C4: for valid (p, q) and par >= 1, after every pass of the outer loop the
\* mass emitted into pmf plus the mass of the transient vector is exactly 1,
\* and no entry is negative; so the deficit of the returned pmf is the mass
\* still transient after n_max shots.
C4_MassConserved ==
    \A k \in DOMAIN mk :
        LET c == mk[k]
        IN  Running(c)
            => /\ Total(c.pmf) + Total(c.p_state) = One
               /\ NonNegative(c.pmf)
               /\ NonNegative(c.p_state)
               /\ c.pc = "returned" => One - Total(c.pmf) = Total(c.p_state)

C4_Witness ==
    \E k \in DOMAIN mk :
        /\ mk[k].pc = "returned"
        /\ mk[k].par_m >= 2
        /\ mk[k].n_max >= 2
        /\ Total(mk[k].pmf) > 0
        /\ Total(mk[k].p_state) > 0

\* The fewest shots that can reach par: ceil(par / 2) with good shots,
\* par without.
MinShots(c) == IF c.p > 0 THEN (c.par_m + 1) \div 2 ELSE c.par_m

BothReturned == \A k \in DOMAIN mk : mk[k].pc = "returned"

\* C5 (as claimed): for n_max >= 1 the total for horizon n_max + 1 is strictly
\* greater than the total for horizon n_max, and both are strictly below 1.
C5_StrictlyIncreasingBelowOne ==
    BothReturned /\ mk[1].n_max >= 1
    => /\ Total(mk[2].pmf) > Total(mk[1].pmf)
       /\ Total(mk[1].pmf) < One
       /\ Total(mk[2].pmf) < One

\* C5 (amended): the total never decreases with the horizon and never exceeds
\* 1.  It is strictly below 1 at horizon n exactly when q > 0 or n < par, and
\* it strictly increases from n_max to n_max + 1 exactly when a hole can end
\* at shot n_max + 1: n_max + 1 >= MinShots, and q > 0 or n_max + 1 <= par.
C5_MonotoneInHorizon ==
    BothReturned
    => /\ Total(mk[2].pmf) >= Total(mk[1].pmf)
       /\ Total(mk[2].pmf) <= One
       /\ \A k \in DOMAIN mk :
             Total(mk[k].pmf) < One <=> (mk[k].q > 0 \/ mk[k].n_max < mk[k].par_m)
       /\ Total(mk[2].pmf) > Total(mk[1].pmf)
             <=> /\ mk[2].n_max >= MinShots(mk[2])
                 /\ (mk[2].q > 0 \/ mk[2].n_max <= mk[2].par_m)

C5_Witness ==
    /\ BothReturned
    /\ mk[1].n_max >= 1
    /\ mk[1].q > 0
    /\ Total(mk[1].pmf) > 0
    /\ Total(mk[2].pmf) > Total(mk[1].pmf)

----------------------------------------------------------------------------
\* Properties of hardy_finish_pmf_ij (SpecFinish)

\* an input that one of the four checks rejects
Rejected(c) ==
    \/ BadProbs(c.p, c.q)
    \/ c.par_m < 1
    \/ c.i < 0 \/ c.i > c.par_m + 1
    \/ c.j # c.par_m /\ c.j # c.par_m + 1

\* C6: an input with invalid probabilities, par < 1, i outside [0, par + 1]
\* or j not in {par, par + 1} fails with a ValueError before pmf or p_state
\* is built; every other input raises nothing and returns a pmf indexed
\* 0..n_max.
C6_RejectsOrReturns ==
    \A k \in DOMAIN fin :
        LET c == fin[k]
        IN  c.pc # "validate"
            => /\ Rejected(c) => /\ c.pc = "raised"
                                 /\ c.raised.kind = "ValueError"
                                 /\ c.built = {}
               /\ ~Rejected(c) => /\ c.pc \in {"setup", "loop", "returned"}
                                  /\ c.raised = NoRaise
               /\ c.pc = "returned" => DOMAIN c.pmf = 0..c.n_max
               /\ c.pc \in {"setup", "loop"} => ENABLED FinishNext

C6_Witness ==
    \E k \in DOMAIN fin :
        /\ fin[k].pc = "raised"
        /\ ValidProbs(fin[k])
        /\ fin[k].par_m >= 1
        /\ fin[k].i \in 0..(fin[k].par_m + 1)
        /\ fin[k].j = fin[k].par_m - 1

\* C7: a call started in an absorbing state returns without running the
\* recursion: pmf[0] = 1 and zeros after it when i = j, all zeros when i is
\* the other boundary; from a transient start pmf[0] = 0.
C7_AbsorbingStart ==
    \A k \in DOMAIN fin :
        LET c == fin[k]
        IN  c.pc = "returned"
            => /\ c.i = c.j
                  => /\ c.pmf[0] = One
                     /\ \A n \in 1..c.n_max : c.pmf[n] = 0
               /\ c.i \in {c.par_m, c.par_m + 1} /\ c.i # c.j
                  => \A n \in 0..c.n_max : c.pmf[n] = 0
               /\ c.i \in {c.par_m, c.par_m + 1}
                  => c.shot = 0 /\ "p_state" \notin c.built
               /\ c.pmf[0] # 0 <=> c.i = c.j

C7_Witness ==
    \E k \in DOMAIN fin :
        /\ fin[k].pc = "returned"
        /\ fin[k].n_max >= 2
        /\ fin[k].i = fin[k].par_m + 1
        /\ fin[k].j = fin[k].i
        /\ fin[k].pmf[0] = One

\* C8: after every pass of the outer loop no entry of pmf or of the transient
\* vector is negative, and the mass in pmf plus the transient mass is at
\* most 1; so the returned pmf sums to at most 1.
C8_SubStochastic ==
    \A k \in DOMAIN fin :
        LET c == fin[k]
        IN  Running(c)
            => /\ NonNegative(c.pmf)
               /\ NonNegative(c.p_state)
               /\ Total(c.pmf) + Total(c.p_state) <= One

\* mass was dropped at the other boundary and mass is still transient
C8_Witness ==
    \E k \in DOMAIN fin :
        /\ fin[k].pc = "returned"
        /\ fin[k].n_max >= 2
        /\ Total(fin[k].pmf) > 0
        /\ Total(fin[k].p_state) > 0
        /\ Total(fin[k].pmf) + Total(fin[k].p_state) < One

\* the case of C1: par = 1, start 0, target the ordinary boundary
ParOne(c) == c.par_m = 1 /\ c.i = 0 /\ c.j = 1 /\ Running(c)

\* C1 (as claimed): pmf[n] = q^(n-1) * (1 - q) for the shots done, and the
\* returned pmf sums to 1 - q^n_max.
C1_AbsorbsEveryNonBad ==
    \A k \in DOMAIN fin :
        LET c == fin[k]
        IN  ParOne(c)
            => /\ \A n \in 1..(c.shot - 1) :
                     c.pmf[n] * Pow(Den, n) = One * Pow(c.q, n - 1) * (Den - c.q)
               /\ c.pc = "returned"
                  => Total(c.pmf) * Pow(Den, c.n_max)
                        = One * (Pow(Den, c.n_max) - Pow(c.q, c.n_max))

\* C1 (amended): a good shot from state 0 lands on 2 = par + 1, the other
\* boundary, and its mass is dropped: pmf[n] = q^(n-1) * (1 - p - q); only
\* the bad-shot mass q^n stays transient; the returned pmf sums to
\* (1 - p - q) * (1 - q^n_max) / (1 - q), which for n_max >= 1 is 1 - q^n_max only if p = 0.
C1_AbsorbsOrdinaryOnly ==
    \A k \in DOMAIN fin :
        LET c == fin[k]
            p_ord == Den - c.p - c.q
        IN  ParOne(c)
            => /\ \A n \in 1..(c.shot - 1) :
                     c.pmf[n] * Pow(Den, n) = One * Pow(c.q, n - 1) * p_ord
               /\ c.p_state[0] * Pow(Den, c.shot - 1) = One * Pow(c.q, c.shot - 1)
               /\ c.pc = "returned"
                  => /\ Total(c.pmf) * (Den - c.q) * Pow(Den, c.n_max)
                           = One * p_ord * (Pow(Den, c.n_max) - Pow(c.q, c.n_max))
                     /\ c.n_max >= 1
                        => (Total(c.pmf) = One - c.p_state[0] <=> c.p = 0)

C1_Witness ==
    \E k \in DOMAIN fin :
        /\ ParOne(fin[k])
        /\ fin[k].pc = "returned"
        /\ fin[k].n_max >= 2
        /\ fin[k].p > 0
        /\ fin[k].q > 0
        /\ fin[k].pmf[2] > 0

----------------------------------------------------------------------------
\* The two solvers compared (SpecEquiv)

Min(a, b) == IF a <= b THEN a ELSE b

\* C9: on the same valid (p, q), par >= 1 and n_max, from state 0: for every
\* shot n the three calls have all done, the single-boundary entry for n is
\* the sum of the two dual-boundary entries for n (targets par and par + 1);
\* two calls that have done the same number of shots hold the same
\* transient vector.
C9_SingleIsSumOfDual ==
    LET m == mk[1]
        f == fin[1]
        g == fin[2]
    IN  Running(m) /\ Running(f) /\ Running(g)
        => /\ \A n \in 1..(Min(m.shot, Min(f.shot, g.shot)) - 1) :
                 m.pmf[n - 1] = f.pmf[n] + g.pmf[n]
           /\ m.shot = f.shot => m.p_state = f.p_state
           /\ m.shot = g.shot => m.p_state = g.p_state
           /\ f.shot = g.shot => f.p_state = g.p_state

\* all three returned, with mass absorbed at both boundaries and mass left
C9_Witness ==
    /\ mk[1].pc = "returned"
    /\ fin[1].pc = "returned"
    /\ fin[2].pc = "returned"
    /\ mk[1].n_max >= 2
    /\ Total(fin[1].pmf) > 0
    /\ Total(fin[2].pmf) > 0
    /\ Total(mk[1].p_state) > 0

----------------------------------------------------------------------------
\* Properties of simulate_hole_hardy (SpecSim, FairSpecSim)

RECURSIVE SumSeq(_, _)
\* the accumulator after the first n outcomes of d
SumSeq(d, n) == IF n <= 0 THEN 0 ELSE d[n] + SumSeq(d, n - 1)

\* the first shot at which the accumulator is >= par; 0 when there is none
FirstHit(c) ==
    LET hits == {n \in 1..Len(c.drawn) : SumSeq(c.drawn, n) >= c.par_m}
    IN  IF hits = {} THEN 0 ELSE CHOOSE n \in hits : \A h \in hits : n <= h

BoundExceeded(c) == c.pc = "raised" /\ c.raised.kind = "RuntimeError"

\* C3 (as claimed): the call returns the count of the first shot at which
\* the accumulator is >= par; it fails with BoundExceeded only with the
\* counter over max_shots and the accumulator still < par, and always then;
\* a trial whose accumulator has reached par is not an error.
C3_RaisesOnlyBeforeAbsorption ==
    \A k \in DOMAIN sim :
        LET c == sim[k]
        IN  c.par_m >= 1 /\ c.max_shots >= 1
            => /\ c.pc = "returned" => c.score = FirstHit(c)
               /\ BoundExceeded(c)
                     <=> c.score > c.max_shots /\ c.total_value < c.par_m
               /\ FirstHit(c) > 0 => ~BoundExceeded(c)

\* C3 (amended): for par >= 1 the call returns the count s of the first shot
\* at which the accumulator is >= par when s <= max_shots.  It fails with
\* BoundExceeded exactly when the accumulator is still < par after max_shots
\* shots: it then draws one more outcome and raises after it, also when
\* that shot brings the accumulator to par.
C3_RaisesAfterCap ==
    \A k \in DOMAIN sim :
        LET c == sim[k]
        IN  c.par_m >= 1
            => /\ c.pc = "returned"
                  => c.score = FirstHit(c) /\ c.score \in 1..c.max_shots
               /\ BoundExceeded(c)
                     <=> /\ Len(c.drawn) = c.max_shots + 1
                         /\ SumSeq(c.drawn, c.max_shots) < c.par_m
               /\ FirstHit(c) \in 1..c.max_shots
                  => c.pc \in {"loop", "returned"} /\ c.score = FirstHit(c)

\* the shot after the cap reaches par, and the call raises
C3_Witness ==
    \E k \in DOMAIN sim :
        /\ BoundExceeded(sim[k])
        /\ sim[k].par_m >= 1
        /\ sim[k].max_shots >= 1
        /\ sim[k].total_value >= sim[k].par_m
        /\ FirstHit(sim[k]) = sim[k].max_shots + 1

SimDone == \A k \in DOMAIN sim : sim[k].pc \in {"returned", "raised"}

C10_Bounded ==
    \A k \in DOMAIN sim :
        LET c == sim[k]
        IN  ValidProbs(c)
            => /\ Len(c.drawn) <= c.max_shots + 1
               /\ c.score = Len(c.drawn)
               /\ c.pc = "loop" => c.score <= c.max_shots
               /\ c.pc = "raised" => BoundExceeded(c)
               /\ c.pc = "returned" /\ c.par_m >= 1
                  => c.score \in 1..c.max_shots

\* C10: with valid (p, q) the call draws at most max_shots + 1 outcomes,
\* whatever they are, and ends: it returns a count in 1..max_shots (par >= 1)
\* or raises BoundExceeded.
C10_Halts == []C10_Bounded /\ <>[]SimDone

\* every outcome drawn was bad, up to the cap
C10_Witness ==
    \E k \in DOMAIN sim :
        /\ BoundExceeded(sim[k])
        /\ sim[k].max_shots >= 2
        /\ Len(sim[k].drawn) = sim[k].max_shots + 1
        /\ \A n \in 1..Len(sim[k].drawn) : sim[k].drawn[n] = 0

=============================================================================
